---- MODULE Spec2Model ----
(***************************************************************************)
(* A model of typescript-graph's graph pipeline: filterGraph (the          *)
(* include/exclude filter with bridge-edge reattachment), the directory    *)
(* tree builder createDirAndNodesTree, the identifier sanitizer            *)
(* fileNameToMermaidId and the serializer mermaidify.                      *)
(*                                                                         *)
(* A JavaScript string is a sequence of one-character strings, so that      *)
(* split, join, includes, toLowerCase and replaceAll are computed and not  *)
(* assumed.  A Node is a record [path, name, highlight, isDirectory], a    *)
(* Relation a record [from, to] (fullText, the raw reference text, is read *)
(* by none of the operations), a Graph a record [nodes, relations].        *)
(***************************************************************************)
EXTENDS Integers, Sequences, FiniteSets, TLC

VARIABLES
    pc,               \* position of the running operation
    graph,            \* the Graph handed to the operation
    include,          \* filterGraph's include argument
    exclude,          \* filterGraph's exclude argument
    filtered,         \* the Graph filterGraph returned
    fileName,         \* fileNameToMermaidId's argument
    mermaidId,        \* the identifier fileNameToMermaidId returned
    options,          \* mermaidify's options
    dirAndNodesTree,  \* the forest createDirAndNodesTree returned
    stack,            \* addGraph / addLink call stack
    relIdx,           \* writeRelations' position in graph.relations
    written           \* the writes issued to the sink, in order

vars == <<pc, graph, include, exclude, filtered, fileName, mermaidId, options,
          dirAndNodesTree, stack, relIdx, written>>

-----------------------------------------------------------------------------
(* Strings *)

RECURSIVE FlatSeq(_)
\* Array.prototype.flat() on an array of arrays.
FlatSeq(ss) == IF ss = <<>> THEN <<>> ELSE Head(ss) \o FlatSeq(Tail(ss))

\* String.prototype.toLowerCase on one character, over the letters of the
\* paths and words of the filtered graphs.
LowerChar(c) ==
    CASE c = "A" -> "a"
      [] c = "B" -> "b"
      [] c = "C" -> "c"
      [] c = "D" -> "d"
      [] OTHER -> c

\* String.prototype.toLowerCase.
ToLowerCase(s) == [i \in 1..Len(s) |-> LowerChar(s[i])]

\* Whether sub occurs in s at position i (1-based).
OccursAt(s, sub, i) ==
    /\ i >= 1
    /\ i + Len(sub) - 1 <= Len(s)
    /\ SubSeq(s, i, i + Len(sub) - 1) = sub

\* String.prototype.includes.
Includes(s, sub) == \E i \in 1..(Len(s) + 1) : OccursAt(s, sub, i)

RECURSIVE SplitFrom(_, _, _)
\* The fragments of s between the occurrences of the character sep, cur being
\* the fragment under construction.
SplitFrom(s, sep, cur) ==
    IF s = <<>> THEN <<cur>>
    ELSE IF Head(s) = sep THEN <<cur>> \o SplitFrom(Tail(s), sep, <<>>)
    ELSE SplitFrom(Tail(s), sep, Append(cur, Head(s)))

\* String.prototype.split(sep) for a one-character separator.
Split(s, sep) == SplitFrom(s, sep, <<>>)

RECURSIVE Join(_, _)
\* Array.prototype.join(sep).
Join(parts, sep) ==
    IF parts = <<>> THEN <<>>
    ELSE IF Len(parts) = 1 THEN parts[1]
    ELSE parts[1] \o sep \o Join(Tail(parts), sep)

RECURSIVE ReplaceAll(_, _, _)
\* String.prototype.replaceAll(pat, rep) for a non-empty pattern: leftmost
\* non-overlapping occurrences, the replacement is not rescanned.
ReplaceAll(s, pat, rep) ==
    IF s = <<>> THEN <<>>
    ELSE IF OccursAt(s, pat, 1)
         THEN rep \o ReplaceAll(SubSeq(s, Len(pat) + 1, Len(s)), pat, rep)
         ELSE <<Head(s)>> \o ReplaceAll(Tail(s), pat, rep)

RECURSIVE ReplaceFirst(_, _, _)
\* String.prototype.replace(pat, rep) with a string pattern: the first
\* occurrence only.
ReplaceFirst(s, pat, rep) ==
    IF OccursAt(s, pat, 1) THEN rep \o SubSeq(s, Len(pat) + 1, Len(s))
    ELSE IF s = <<>> THEN <<>>
    ELSE <<Head(s)>> \o ReplaceFirst(Tail(s), pat, rep)

-----------------------------------------------------------------------------
(* Graph model *)

\* A Node whose display name is its path and which carries no flag.
MkNode(p) == [path |-> p, name |-> p, highlight |-> FALSE, isDirectory |-> FALSE]

MkRelation(f, t) == [from |-> f, to |-> t]

isSameNode(a, b) == a.path = b.path

isSameRelation(a, b) == isSameNode(a.from, b.from) /\ isSameNode(a.to, b.to)

RECURSIVE UniqueNodesInto(_, _)
UniqueNodesInto(pre, nodes) ==
    IF nodes = <<>> THEN pre
    ELSE IF \E i \in 1..Len(pre) : isSameNode(pre[i], Head(nodes))
         THEN UniqueNodesInto(pre, Tail(nodes))
         ELSE UniqueNodesInto(Append(pre, Head(nodes)), Tail(nodes))

\* The nodes with later duplicates (by path) removed, first-seen order kept.
getUniqueNodes(nodes) == UniqueNodesInto(<<>>, nodes)

RECURSIVE UniqueRelationsInto(_, _)
UniqueRelationsInto(pre, relations) ==
    IF relations = <<>> THEN pre
    ELSE IF \E i \in 1..Len(pre) : isSameRelation(pre[i], Head(relations))
         THEN UniqueRelationsInto(pre, Tail(relations))
         ELSE UniqueRelationsInto(Append(pre, Head(relations)), Tail(relations))

\* The relations with later duplicates (by endpoint paths) removed.
getUniqueRelations(relations) == UniqueRelationsInto(<<>>, relations)

\* relations.map(({ from, to }) => [from, to]).flat()
Endpoints(relations) ==
    FlatSeq([i \in 1..Len(relations) |-> <<relations[i].from, relations[i].to>>])

\* Explicit nodes first, then the endpoints of the relations, deduplicated.
extractUniqueNodes(g) == getUniqueNodes(g.nodes \o Endpoints(g.relations))

-----------------------------------------------------------------------------
(* filterGraph *)

\* An absent (undefined) word list, and a given one.
Absent == [defined |-> FALSE, words |-> <<>>]

Given(ws) == [defined |-> TRUE, words |-> ws]

\* words.some(word => path.toLowerCase().includes(word.toLowerCase()))
SomeWordIn(words, path) ==
    \E i \in 1..Len(words) : Includes(ToLowerCase(path), ToLowerCase(words[i]))

\* IncludePass without the test for an empty include list.
IncludePass_NoLengthTest(inc, g) ==
    IF inc.defined
    THEN [nodes |-> SelectSeq(g.nodes, LAMBDA node : SomeWordIn(inc.words, node.path)),
          relations |-> SelectSeq(g.relations,
                            LAMBDA r : SomeWordIn(inc.words, r.from.path)
                                       \/ SomeWordIn(inc.words, r.to.path))]
    ELSE [nodes |-> g.nodes, relations |-> g.relations]

\* The include pass: nodes whose path matches, relations one of whose
\* endpoints matches; skipped when include is absent or empty.
IncludePass(inc, g) ==
    IF inc.defined /\ Len(inc.words) # 0
    THEN [nodes |-> SelectSeq(g.nodes, LAMBDA node : SomeWordIn(inc.words, node.path)),
          relations |-> SelectSeq(g.relations,
                            LAMBDA r : \E i \in 1..Len(inc.words) :
                                \/ Includes(ToLowerCase(r.from.path), ToLowerCase(inc.words[i]))
                                \/ Includes(ToLowerCase(r.to.path), ToLowerCase(inc.words[i])))]
    ELSE [nodes |-> g.nodes, relations |-> g.relations]

\* ExcludePass testing only the from endpoint of a relation.
ExcludePass_FromOnly(exc, t) ==
    IF exc.defined /\ Len(exc.words) # 0
    THEN [nodes |-> SelectSeq(t.nodes, LAMBDA node : ~SomeWordIn(exc.words, node.path)),
          relations |-> SelectSeq(t.relations,
                            LAMBDA r : ~SomeWordIn(exc.words, r.from.path))]
    ELSE t

\* The exclude pass: drops the nodes whose path matches and the relations
\* one of whose endpoints matches; skipped when exclude is absent or empty.
ExcludePass(exc, t) ==
    IF exc.defined /\ Len(exc.words) # 0
    THEN [nodes |-> SelectSeq(t.nodes, LAMBDA node : ~SomeWordIn(exc.words, node.path)),
          relations |-> SelectSeq(t.relations,
                            LAMBDA r : ~(\E i \in 1..Len(exc.words) :
                                \/ Includes(ToLowerCase(r.from.path), ToLowerCase(exc.words[i]))
                                \/ Includes(ToLowerCase(r.to.path), ToLowerCase(exc.words[i]))))]
    ELSE t

\* relationNodes: the distinct endpoints of the retained relations, each kept
\* when tmpNodes holds some node that is not that node.
RelationNodes(tmpNodes, tmpRelations) ==
    SelectSeq(getUniqueNodes(Endpoints(tmpRelations)),
              LAMBDA node : \E i \in 1..Len(tmpNodes) : ~isSameNode(node, tmpNodes[i]))

\* The original relations both of whose endpoints are in relationNodes.
Readmitted(relations, tmpNodes, tmpRelations) ==
    SelectSeq(relations,
              LAMBDA r :
                  LET relationNodes == RelationNodes(tmpNodes, tmpRelations)
                  IN  /\ \E i \in 1..Len(relationNodes) : isSameNode(relationNodes[i], r.from)
                      /\ \E i \in 1..Len(relationNodes) : isSameNode(relationNodes[i], r.to))

\* The retained relations after bridge-edge reattachment.
Reattach(relations, tmpNodes, tmpRelations) ==
    getUniqueRelations(tmpRelations \o Readmitted(relations, tmpNodes, tmpRelations))

filterGraph(inc, exc, g) ==
    LET t   == ExcludePass(exc, IncludePass(inc, g))
        rel == Reattach(g.relations, t.nodes, t.relations)
    IN  [nodes |-> extractUniqueNodes([nodes |-> t.nodes, relations |-> rel]),
         relations |-> rel]

-----------------------------------------------------------------------------
(* Inputs of the filter *)

\* The sequences over S of length at most n.
SeqsUpTo(S, n) == UNION {[1..k -> S] : k \in 0..n}

MaxRelations == 4

\* The paths of the filtered graphs: "a" matches A, "B" matches b and cb.
FilterNodeLists ==
    {[i \in 1..Len(q) |-> MkNode(q[i])] :
        q \in {<<>>, <<<<"A">>>>, <<<<"b">>, <<"c", "b">>, <<"d">>>>,
               <<<<"A">>, <<"b">>, <<"c", "b">>, <<"d">>>>,
               <<<<"d">>, <<"c", "b">>, <<"A">>, <<"b">>>>}}

FilterRelations ==
    {MkRelation(MkNode(e[1]), MkNode(e[2])) :
        e \in {<<<<"A">>, <<"b">>>>, <<<<"A">>, <<"c", "b">>>>, <<<<"b">>, <<"c", "b">>>>,
               <<<<"c", "b">>, <<"d">>>>, <<<<"b">>, <<"A">>>>}}

IncludeLists ==
    {Absent, Given(<<>>), Given(<<<<"a">>>>), Given(<<<<"c">>>>), Given(<<<<"a">>, <<"d">>>>)}

ExcludeLists ==
    {Absent, Given(<<>>), Given(<<<<"B">>>>), Given(<<<<"d">>>>), Given(<<<<>>>>)}

InitFilter ==
    /\ pc = "filter"
    /\ graph \in [nodes : FilterNodeLists,
                  relations : SeqsUpTo(FilterRelations, MaxRelations)]
    /\ include \in IncludeLists
    /\ exclude \in ExcludeLists
    /\ filtered = [nodes |-> <<>>, relations |-> <<>>]
    /\ fileName = <<>>
    /\ mermaidId = <<>>
    /\ options = [LR |-> FALSE]
    /\ dirAndNodesTree = <<>>
    /\ stack = <<>>
    /\ relIdx = 0
    /\ written = <<>>

\* A call of filterGraph(include, exclude, graph).
FilterGraph ==
    /\ pc = "filter"
    /\ filtered' = filterGraph(include, exclude, graph)
    /\ pc' = "filtered"
    /\ UNCHANGED <<graph, include, exclude, fileName, mermaidId, options,
                   dirAndNodesTree, stack, relIdx, written>>

NextFilter == FilterGraph

SpecFilter == InitFilter /\ [][NextFilter]_vars

-----------------------------------------------------------------------------
(* Properties of filterGraph *)

\* The paths of a node sequence, in order.
PathsOf(nodes) == [i \in 1..Len(nodes) |-> nodes[i].path]

\* The (from.path, to.path) pairs of a relation sequence, in order.
PairsOf(relations) ==
    [i \in 1..Len(relations) |-> <<relations[i].from.path, relations[i].to.path>>]

\* The set of elements of a sequence.
Range(q) == {q[i] : i \in 1..Len(q)}

NoFilter(w) == ~w.defined \/ Len(w.words) = 0

NoDuplicateRelations(g) ==
    \A i, j \in 1..Len(g.relations) :
        PairsOf(g.relations)[i] = PairsOf(g.relations)[j] => i = j

EndpointsInNodes(g) ==
    \A i \in 1..Len(g.relations) :
        /\ g.relations[i].from.path \in Range(PathsOf(g.nodes))
        /\ g.relations[i].to.path \in Range(PathsOf(g.nodes))

\* C1 as stated: with include absent or empty and exclude absent or empty,
\* filterGraph returns the nodes of G (by path) and the relations of G (by
\* endpoint paths), same length and same order, for any node list and any
\* relation sequence.
C1_IdentityAnyGraph ==
    (pc = "filtered" /\ NoFilter(include) /\ NoFilter(exclude)) =>
        /\ PathsOf(filtered.nodes) = PathsOf(graph.nodes)
        /\ PairsOf(filtered.relations) = PairsOf(graph.relations)

\* C1 amended: the identity holds for every graph whose relation sequence has
\* no two relations with the same endpoint paths and whose relation endpoints
\* are all in the node list.
C1_IdentityWellFormed ==
    (/\ pc = "filtered" /\ NoFilter(include) /\ NoFilter(exclude)
     /\ NoDuplicateRelations(graph) /\ EndpointsInNodes(graph)) =>
        /\ PathsOf(filtered.nodes) = PathsOf(graph.nodes)
        /\ PairsOf(filtered.relations) = PairsOf(graph.relations)

C1_Witness ==
    /\ pc = "filtered" /\ NoFilter(include) /\ NoFilter(exclude)
    /\ NoDuplicateRelations(graph) /\ EndpointsInNodes(graph)
    /\ Len(graph.nodes) = 4 /\ Len(graph.relations) = 4
    /\ PathsOf(filtered.nodes) = PathsOf(graph.nodes)
    /\ PairsOf(filtered.relations) = PairsOf(graph.relations)

\* KEPT: the relations that survive the include/exclude pass.
Kept == ExcludePass(exclude, IncludePass(include, graph)).relations

\* REF: the paths that are an endpoint of some relation of KEPT.
Ref == {Kept[i].from.path : i \in 1..Len(Kept)} \cup {Kept[i].to.path : i \in 1..Len(Kept)}

\* The original relations not in KEPT both of whose endpoints are in REF.
Bridges ==
    SelectSeq(graph.relations,
              LAMBDA r : /\ <<r.from.path, r.to.path>> \notin Range(PairsOf(Kept))
                         /\ r.from.path \in Ref
                         /\ r.to.path \in Ref)

\* C2: every original relation that is not in KEPT is in the output exactly
\* when both its endpoints are in REF; the output is KEPT followed by the
\* re-admitted relations, without two relations of the same endpoint paths.
C2_BridgeReattachment ==
    pc = "filtered" =>
        /\ \A i \in 1..Len(graph.relations) :
              LET pair == PairsOf(graph.relations)[i]
              IN  pair \notin Range(PairsOf(Kept)) =>
                      (pair \in Range(PairsOf(filtered.relations))
                          <=> (pair[1] \in Ref /\ pair[2] \in Ref))
        /\ PairsOf(filtered.relations) = PairsOf(getUniqueRelations(Kept \o Bridges))

\* C2 restricted to the graphs whose relation endpoints are all in the node
\* list (a probe of where the divergence lies, not a claim).
C2_OnWellFormed == EndpointsInNodes(graph) => C2_BridgeReattachment

\* A relation one of whose endpoints contains an exclude word.
Excluded(r) == SomeWordIn(exclude.words, r.from.path) \/ SomeWordIn(exclude.words, r.to.path)

\* C10: with a non-empty exclude list no output relation has an endpoint
\* whose path contains (case-insensitively) an exclude word, no output node
\* has such a path, and no original relation with such an endpoint is in the
\* output.
C10_ExclusionAbsolute ==
    (pc = "filtered" /\ exclude.defined /\ Len(exclude.words) # 0) =>
        /\ \A i \in 1..Len(filtered.relations) : ~Excluded(filtered.relations[i])
        /\ \A i \in 1..Len(filtered.nodes) :
              ~SomeWordIn(exclude.words, filtered.nodes[i].path)
        /\ \A i \in 1..Len(graph.relations) :
              Excluded(graph.relations[i]) =>
                  PairsOf(graph.relations)[i] \notin Range(PairsOf(filtered.relations))

\* An exclude list dropped a relation, and a bridge relation was re-admitted.
C10_Witness ==
    /\ pc = "filtered" /\ exclude.defined /\ Len(exclude.words) # 0
    /\ include.defined /\ Len(include.words) # 0
    /\ \E i \in 1..Len(graph.relations) :
          /\ Excluded(graph.relations[i])
          /\ PairsOf(graph.relations)[i] \in Range(PairsOf(IncludePass(include, graph).relations))
    /\ Len(filtered.relations) > Len(Kept)

-----------------------------------------------------------------------------
(* createDirAndNodesTree *)

NODE_MODULES == <<"n", "o", "d", "e", "_", "m", "o", "d", "u", "l", "e", "s">>

\* An undefined directory, and a defined one.
NoDir == [defined |-> FALSE, dir |-> <<>>]

Dir(d) == [defined |-> TRUE, dir |-> d]

RECURSIVE NormalizeSegments(_, _, _)
\* path.normalize's walk over the segments: empty and "." segments are
\* dropped, ".." removes the segment before it, or is kept when there is
\* none to remove and the path is relative.
NormalizeSegments(segs, res, allowAboveRoot) ==
    IF segs = <<>> THEN res
    ELSE LET seg == Head(segs)
         IN  IF seg = <<>> \/ seg = <<".">>
             THEN NormalizeSegments(Tail(segs), res, allowAboveRoot)
             ELSE IF seg = <<".", ".">>
             THEN IF res # <<>> /\ res[Len(res)] # <<".", ".">>
                  THEN NormalizeSegments(Tail(segs), SubSeq(res, 1, Len(res) - 1), allowAboveRoot)
                  ELSE IF allowAboveRoot
                  THEN NormalizeSegments(Tail(segs), Append(res, seg), allowAboveRoot)
                  ELSE NormalizeSegments(Tail(segs), res, allowAboveRoot)
             ELSE NormalizeSegments(Tail(segs), Append(res, seg), allowAboveRoot)

\* path.normalize (posix).
PathNormalize(p) ==
    IF p = <<>> THEN <<".">>
    ELSE LET isAbsolute == p[1] = "/"
             trailingSeparator == p[Len(p)] = "/"
             n == Join(NormalizeSegments(Split(p, "/"), <<>>, ~isAbsolute), <<"/">>)
         IN  IF n = <<>>
             THEN IF isAbsolute THEN <<"/">>
                  ELSE IF trailingSeparator THEN <<".", "/">> ELSE <<".">>
             ELSE (IF isAbsolute THEN <<"/">> ELSE <<>>) \o n
                  \o (IF trailingSeparator THEN <<"/">> ELSE <<>>)

\* path.join (posix): the non-empty arguments joined by "/" and normalized.
PathJoin(args) ==
    LET joined == Join(SelectSeq(args, LAMBDA a : a # <<>>), <<"/">>)
    IN  IF joined = <<>> THEN <<".">> ELSE PathNormalize(joined)

\* getDirectoryPath without the node_modules bucket.
getDirectoryPath_NoBucket(filePath) ==
    LET array == Split(filePath, "/")
    IN  IF Len(array) = 1 THEN NoDir
        ELSE Dir(PathJoin(SubSeq(array, 1, Len(array) - 1)))

getDirectoryPath(filePath) ==
    LET array == Split(filePath, "/")
    IN  IF \E i \in 1..Len(array) : array[i] = NODE_MODULES THEN Dir(NODE_MODULES)
        ELSE IF Len(array) = 1 THEN NoDir
        ELSE Dir(PathJoin(SubSeq(array, 1, Len(array) - 1)))

RECURSIVE AncestorsInto(_, _)
\* dirArray.reduce(...): the cumulative paths of a directory's segments.
AncestorsInto(prev, dirArray) ==
    IF dirArray = <<>> THEN prev
    ELSE IF prev # <<>> /\ prev[Len(prev)] # <<>>
         THEN AncestorsInto(Append(prev, PathJoin(<<prev[Len(prev)], Head(dirArray)>>)),
                            Tail(dirArray))
         ELSE AncestorsInto(Append(prev, Head(dirArray)), Tail(dirArray))

RECURSIVE DedupInto(_, _)
\* The final reduce of allDir: undefined entries skipped, duplicates removed.
DedupInto(pre, dirs) ==
    IF dirs = <<>> THEN pre
    ELSE IF ~Head(dirs).defined \/ Head(dirs).dir = <<>>
         THEN DedupInto(pre, Tail(dirs))
         ELSE IF \E i \in 1..Len(pre) : pre[i] = Head(dirs).dir
              THEN DedupInto(pre, Tail(dirs))
              ELSE DedupInto(Append(pre, Head(dirs).dir), Tail(dirs))

\* allDir: every directory of a node and every ancestor of it, once each, in
\* first-encountered order.
AllDir(g) ==
    DedupInto(<<>>,
        FlatSeq([i \in 1..Len(g.nodes) |->
            LET dirPath == getDirectoryPath(g.nodes[i].path)
            IN  IF ~dirPath.defined \/ dirPath.dir = <<>> THEN <<NoDir>>
                ELSE LET a == AncestorsInto(<<>>, Split(dirPath.dir, "/"))
                     IN  [k \in 1..Len(a) |-> Dir(a[k])]]))

\* DirAndNodes with a node given to every directory that is a prefix of its own.
DirAndNodes_Ancestors(g) ==
    LET allDir == AllDir(g)
    IN  [k \in 1..Len(allDir) |->
            [currentDir |-> allDir[k],
             dirHierarchy |-> Split(allDir[k], "/"),
             nodes |-> SelectSeq(g.nodes,
                           LAMBDA node :
                               LET d == getDirectoryPath(node.path)
                               IN  d.defined /\ OccursAt(d.dir, allDir[k], 1))]]

\* dirAndNodes: each directory with the nodes whose directory it is.
DirAndNodes(g) ==
    LET allDir == AllDir(g)
    IN  [k \in 1..Len(allDir) |->
            [currentDir |-> allDir[k],
             dirHierarchy |-> Split(allDir[k], "/"),
             nodes |-> SelectSeq(g.nodes,
                           LAMBDA node : getDirectoryPath(node.path) = Dir(allDir[k]))]]

isChild(parentDirHierarchy, candidate) ==
    IF Len(parentDirHierarchy) # Len(candidate) - 1 THEN FALSE
    ELSE \A i \in 1..Len(parentDirHierarchy) : parentDirHierarchy[i] = candidate[i]

\* dirAndNodes.filter(item => isChild(dirHierarchy, item.dirHierarchy))
ChildEntries(dirAndNodes, d) ==
    SelectSeq(dirAndNodes, LAMBDA item : isChild(d.dirHierarchy, item.dirHierarchy))

RECURSIVE createDirAndNodesRecursive_ElideChildless(_, _)
\* createDirAndNodesRecursive eliding only the directories without a child.
createDirAndNodesRecursive_ElideChildless(dirAndNodes, d) ==
    LET kids == ChildEntries(dirAndNodes, d)
        sub  == FlatSeq([k \in 1..Len(kids) |->
                    createDirAndNodesRecursive_ElideChildless(dirAndNodes, kids[k])])
    IN  IF Len(d.nodes) = 0 /\ Len(kids) < 1 THEN sub
        ELSE <<[currentDir |-> d.currentDir, nodes |-> d.nodes, children |-> sub]>>

RECURSIVE createDirAndNodesRecursive(_, _)
createDirAndNodesRecursive(dirAndNodes, d) ==
    LET kids == ChildEntries(dirAndNodes, d)
        sub  == FlatSeq([k \in 1..Len(kids) |->
                    createDirAndNodesRecursive(dirAndNodes, kids[k])])
    IN  IF Len(d.nodes) = 0 /\ Len(kids) <= 1 THEN sub
        ELSE <<[currentDir |-> d.currentDir, nodes |-> d.nodes, children |-> sub]>>

createDirAndNodesTree(g) ==
    LET dirAndNodes == DirAndNodes(g)
        tops == SelectSeq(dirAndNodes, LAMBDA d : Len(d.dirHierarchy) = 1)
    IN  FlatSeq([k \in 1..Len(tops) |-> createDirAndNodesRecursive(dirAndNodes, tops[k])])

-----------------------------------------------------------------------------
(* Inputs of the tree builder *)

MaxTreeNodes == 3

TreePaths ==
    {<<"x">>,
     <<"a", "/", "x">>,
     <<"a", "/", "b", "/", "y">>,
     <<"a", "/", "b", "/", "c", "/", "x">>,
     <<"a", "/", "b", "/", "c", "/", "y">>,
     <<"a", "/", "d", "/", "w">>,
     <<"b", "/", "x">>,
     <<".", "/", "a", "/", "z">>,
     <<"n", "o", "d", "e", "_", "m", "o", "d", "u", "l", "e", "s", "/", "r", "e", "a", "c", "t", "/", "i", "n", "d", "e", "x">>,
     <<"n", "o", "d", "e", "_", "m", "o", "d", "u", "l", "e", "s", "/", "l", "o", "d", "a", "s", "h", "/", "g", "e", "t">>,
     <<"s", "r", "c", "/", "n", "o", "d", "e", "_", "m", "o", "d", "u", "l", "e", "s", "/", "x", "/", "y">>}

InitTree ==
    /\ pc = "tree"
    /\ \E q \in {r \in SeqsUpTo(TreePaths, MaxTreeNodes) :
                    \A i, j \in 1..Len(r) : r[i] = r[j] => i = j} :
          graph = [nodes |-> [i \in 1..Len(q) |-> MkNode(q[i])], relations |-> <<>>]
    /\ include = Absent
    /\ exclude = Absent
    /\ filtered = [nodes |-> <<>>, relations |-> <<>>]
    /\ fileName = <<>>
    /\ mermaidId = <<>>
    /\ options = [LR |-> FALSE]
    /\ dirAndNodesTree = <<>>
    /\ stack = <<>>
    /\ relIdx = 0
    /\ written = <<>>

\* A call of createDirAndNodesTree(graph).
CreateDirAndNodesTree ==
    /\ pc = "tree"
    /\ dirAndNodesTree' = createDirAndNodesTree(graph)
    /\ pc' = "built"
    /\ UNCHANGED <<graph, include, exclude, filtered, fileName, mermaidId, options,
                   stack, relIdx, written>>

NextTree == CreateDirAndNodesTree

SpecTree == InitTree /\ [][NextTree]_vars

-----------------------------------------------------------------------------
(* Properties of createDirAndNodesTree *)

RECURSIVE TreeNodesOf(_, _)
\* Every tree node of a forest, roots and descendants, in pre-order, each
\* with its depth (roots at depth).
TreeNodesOf(forest, depth) ==
    FlatSeq([k \in 1..Len(forest) |->
        <<[tree |-> forest[k], depth |-> depth]>>
            \o TreeNodesOf(forest[k].children, depth + 1)])

\* The tree nodes of the forest that directly own a node of the given path.
OwnersOf(forest, path) ==
    LET all == TreeNodesOf(forest, 0)
    IN  UNION {{<<k, n>> : n \in {m \in 1..Len(all[k].tree.nodes) :
                                      all[k].tree.nodes[m].path = path}} :
               k \in 1..Len(all)}

\* Whether the node of this path is owned by exactly one tree node, whose
\* currentDir is the directory computed for the path.
OwnedOnceAtItsDirectory(forest, path) ==
    /\ Cardinality(OwnersOf(forest, path)) = 1
    /\ \A o \in OwnersOf(forest, path) :
          Dir(TreeNodesOf(forest, 0)[o[1]].tree.currentDir) = getDirectoryPath(path)

\* C3 as stated: every node of graph.nodes, top-level files included, is owned
\* by exactly one tree node, whose currentDir is the node's directory.
C3_EveryNodeOwnedOnce ==
    pc = "built" =>
        \A i \in 1..Len(graph.nodes) :
            OwnedOnceAtItsDirectory(dirAndNodesTree, graph.nodes[i].path)

\* C3 amended: every node for which a directory is computed (a path with a
\* node_modules segment, or with two segments or more) is owned by exactly
\* one tree node, whose currentDir is that directory; a node whose path is a
\* single segment other than node_modules is owned by no tree node.
C3_NodesWithDirectoryOwnedOnce ==
    pc = "built" =>
        \A i \in 1..Len(graph.nodes) :
            LET path == graph.nodes[i].path
                segments == Split(path, "/")
            IN  IF Len(segments) >= 2 \/ segments = <<NODE_MODULES>>
                THEN OwnedOnceAtItsDirectory(dirAndNodesTree, path)
                ELSE OwnersOf(dirAndNodesTree, path) = {}

\* A top-level file beside two files of nested directories.
C3_Witness ==
    /\ pc = "built"
    /\ PathsOf(graph.nodes) = <<<<"a", "/", "x">>, <<"x">>, <<"a", "/", "b", "/", "y">>>>
    /\ OwnersOf(dirAndNodesTree, <<"x">>) = {}
    /\ OwnedOnceAtItsDirectory(dirAndNodesTree, <<"a", "/", "x">>)
    /\ OwnedOnceAtItsDirectory(dirAndNodesTree, <<"a", "/", "b", "/", "y">>)

\* C4: no tree node has no node of its own and fewer than two children; every
\* directory entry that owns a node or has two child entries or more is a
\* tree node; a/b/c/x and a/b/c/y give the single root a/b/c holding both;
\* a/x and a/b/y give the root a holding x with the single child a/b holding y.
C4_Collapsing ==
    pc = "built" =>
        LET all == TreeNodesOf(dirAndNodesTree, 0)
            entries == DirAndNodes(graph)
        IN  /\ \A k \in 1..Len(all) :
                  ~(Len(all[k].tree.nodes) = 0 /\ Len(all[k].tree.children) < 2)
            /\ \A e \in 1..Len(entries) :
                  (\/ Len(entries[e].nodes) > 0
                   \/ Len(ChildEntries(entries, entries[e])) >= 2)
                  => Cardinality({k \in 1..Len(all) :
                         all[k].tree.currentDir = entries[e].currentDir}) = 1
            /\ PathsOf(graph.nodes) = <<<<"a", "/", "b", "/", "c", "/", "x">>, <<"a", "/", "b", "/", "c", "/", "y">>>>
                  => dirAndNodesTree =
                        <<[currentDir |-> <<"a", "/", "b", "/", "c">>,
                           nodes |-> graph.nodes,
                           children |-> <<>>]>>
            /\ PathsOf(graph.nodes) = <<<<"a", "/", "x">>, <<"a", "/", "b", "/", "y">>>>
                  => dirAndNodesTree =
                        <<[currentDir |-> <<"a">>,
                           nodes |-> <<graph.nodes[1]>>,
                           children |-> <<[currentDir |-> <<"a", "/", "b">>,
                                           nodes |-> <<graph.nodes[2]>>,
                                           children |-> <<>>]>>]>>

\* A directory without a file of its own is kept for its two children, one of
\* them standing for a collapsed chain.
C4_Witness ==
    /\ pc = "built"
    /\ PathsOf(graph.nodes) = <<<<"a", "/", "b", "/", "c", "/", "x">>, <<"a", "/", "d", "/", "w">>>>
    /\ Len(dirAndNodesTree) = 1
    /\ dirAndNodesTree[1].currentDir = <<"a">>
    /\ dirAndNodesTree[1].nodes = <<>>
    /\ Len(dirAndNodesTree[1].children) = 2
    /\ dirAndNodesTree[1].children[1].currentDir = <<"a", "/", "b", "/", "c">>

\* Whether a path has a segment equal to node_modules.
HasNodeModulesSegment(path) == \E i \in 1..Len(Split(path, "/")) : Split(path, "/")[i] = NODE_MODULES

\* C5: all the nodes whose path has a node_modules segment are owned by one
\* tree node, a childless root whose currentDir is node_modules; no tree node
\* has a currentDir of the form node_modules/<package>.
C5_NodeModulesBucket ==
    pc = "built" =>
        LET all == TreeNodesOf(dirAndNodesTree, 0)
            bucketed == SelectSeq(graph.nodes, LAMBDA node : HasNodeModulesSegment(node.path))
        IN  /\ \A k \in 1..Len(all) :
                  ~OccursAt(all[k].tree.currentDir, NODE_MODULES \o <<"/">>, 1)
            /\ bucketed # <<>> =>
                  \E r \in 1..Len(dirAndNodesTree) :
                      /\ dirAndNodesTree[r].currentDir = NODE_MODULES
                      /\ dirAndNodesTree[r].children = <<>>
                      /\ dirAndNodesTree[r].nodes = bucketed
                      /\ \A k \in 1..Len(all) :
                            all[k].tree # dirAndNodesTree[r] =>
                                \A n \in 1..Len(all[k].tree.nodes) :
                                    ~HasNodeModulesSegment(all[k].tree.nodes[n].path)

\* Packages at different depths share the bucket.
C5_Witness ==
    /\ pc = "built"
    /\ PathsOf(graph.nodes) = <<<<"n", "o", "d", "e", "_", "m", "o", "d", "u", "l", "e", "s", "/", "r", "e", "a", "c", "t", "/", "i", "n", "d", "e", "x">>, <<"s", "r", "c", "/", "n", "o", "d", "e", "_", "m", "o", "d", "u", "l", "e", "s", "/", "x", "/", "y">>, <<"n", "o", "d", "e", "_", "m", "o", "d", "u", "l", "e", "s", "/", "l", "o", "d", "a", "s", "h", "/", "g", "e", "t">>>>
    /\ Len(dirAndNodesTree) = 1
    /\ dirAndNodesTree[1].currentDir = NODE_MODULES
    /\ Len(dirAndNodesTree[1].nodes) = 3


-----------------------------------------------------------------------------
(* fileNameToMermaidId *)

\* The one-character alternatives of the split pattern
\* /@|\[|\]|-|>|<|{|}|\(|\)|=|&|\|~|,|"|%|\^|\*|_/ .
SplitCharacters ==
    {"@", "[", "]", "-", ">", "<", "{", "}", "(", ")", "=", "&", ",", "\"", "%", "^", "*", "_"}

RECURSIVE SplitOnPattern(_, _)
\* String.prototype.split with the pattern above: a one-character alternative
\* or the two-character alternative \|~ ends the fragment under construction.
SplitOnPattern(s, cur) ==
    IF s = <<>> THEN <<cur>>
    ELSE IF Head(s) \in SplitCharacters
         THEN <<cur>> \o SplitOnPattern(Tail(s), <<>>)
         ELSE IF OccursAt(s, <<"|", "~">>, 1)
              THEN <<cur>> \o SplitOnPattern(SubSeq(s, 3, Len(s)), <<>>)
              ELSE SplitOnPattern(Tail(s), Append(cur, Head(s)))

\* The split-and-rejoin step.
SplitAndRejoin(name) == Join(SplitOnPattern(name, <<>>), <<"/", "/">>)

fileNameToMermaidId(name) ==
    ReplaceAll(
        ReplaceAll(
            ReplaceAll(
                ReplaceAll(SplitAndRejoin(name), <<"/", "g", "r", "a", "p", "h", "/">>, <<"/", "_", "g", "r", "a", "p", "h", "_", "/">>),
                <<"s", "t", "y", "l", "e">>, <<"s", "t", "y", "l", "e", "_">>),
            <<"g", "r", "a", "p", "h">>, <<"g", "r", "a", "p", "h", "_">>),
        <<"c", "l", "a", "s", "s">>, <<"c", "l", "a", "s", "s", "_">>)

\* fileNameToMermaidName: the quote character is the only split point.
fileNameToMermaidName(name) == Join(Split(name, "\""), <<"/", "/">>)

MaxFragments == 2

\* The pieces the names handed to the sanitizer are made of.
IdFragments ==
    {<<c>> : c \in SplitCharacters \cup {"|", "~", "a", "/"}}
        \cup {<<"g", "r", "a", "p", "h">>, <<"s", "t", "y", "l", "e">>, <<"c", "l", "a", "s", "s">>, <<"/", "g", "r", "a", "p", "h", "/">>}

InitId ==
    /\ pc = "id"
    /\ \E q \in SeqsUpTo(IdFragments, MaxFragments) : fileName = FlatSeq(q)
    /\ mermaidId = <<>>
    /\ graph = [nodes |-> <<>>, relations |-> <<>>]
    /\ include = Absent
    /\ exclude = Absent
    /\ filtered = [nodes |-> <<>>, relations |-> <<>>]
    /\ options = [LR |-> FALSE]
    /\ dirAndNodesTree = <<>>
    /\ stack = <<>>
    /\ relIdx = 0
    /\ written = <<>>

\* A call of fileNameToMermaidId(fileName).
FileNameToMermaidId ==
    /\ pc = "id"
    /\ mermaidId' = fileNameToMermaidId(fileName)
    /\ pc' = "sanitized"
    /\ UNCHANGED <<graph, include, exclude, filtered, fileName, options,
                   dirAndNodesTree, stack, relIdx, written>>

NextId == FileNameToMermaidId

SpecId == InitId /\ [][NextId]_vars

\* The reserved characters of the identifier sanitization.
ReservedCharacters ==
    {"@", "[", "]", "-", ">", "<", "{", "}", "(", ")", "=", "&", "|", "~", ",", "\"",
     "%", "^", "*", "_"}

WithoutReservedWord(name) ==
    /\ ~Includes(name, <<"g", "r", "a", "p", "h">>)
    /\ ~Includes(name, <<"s", "t", "y", "l", "e">>)
    /\ ~Includes(name, <<"c", "l", "a", "s", "s">>)

\* C6: the split-and-rejoin step leaves none of the reserved characters, so the
\* identifier of a path without the substrings graph, style and class holds
\* none of them.
C6_NoReservedCharacter ==
    pc = "sanitized" =>
        /\ Range(SplitAndRejoin(fileName)) \cap ReservedCharacters = {}
        /\ WithoutReservedWord(fileName) => Range(mermaidId) \cap ReservedCharacters = {}

\* C6 for the one-character alternatives of the pattern only (a probe of where
\* the divergence lies, not a claim).
C6_OnSplitCharacters ==
    pc = "sanitized" =>
        /\ Range(SplitAndRejoin(fileName)) \cap SplitCharacters = {}
        /\ WithoutReservedWord(fileName) => Range(mermaidId) \cap SplitCharacters = {}


-----------------------------------------------------------------------------
(* mermaidify *)
(* A written text is a sequence of pieces: the fixed parts of a template    *)
(* literal are whole pieces, the parts computed from a path or a name are   *)
(* one piece per character.                                                 *)

indent == <<"    ">>

CLASSNAME_DIR == <<"dir">>

CLASSNAME_HIGHLIGHT == <<"highlight">>

\* The direction declaration with LR and TB tested one after the other.
DirectionWrites_BothTested(opts) ==
    (IF opts.LR THEN <<<<"flowchart LR\n">>>> ELSE <<>>)
        \o (IF opts.TB THEN <<<<"flowchart TB\n">>>> ELSE <<>>)
        \o (IF ~opts.LR /\ ~opts.TB THEN <<<<"flowchart\n">>>> ELSE <<>>)

\* The writes of the direction declaration.
DirectionWrites(opts) ==
    IF opts.LR THEN <<<<"flowchart LR\n">>>>
    ELSE IF opts.TB THEN <<<<"flowchart TB\n">>>>
    ELSE <<<<"flowchart\n">>>>

ClassDefDirLine == indent \o <<"classDef ">> \o CLASSNAME_DIR \o <<" fill:#0000,stroke:#999\n">>

ClassDefHighlightLine ==
    indent \o <<"classDef ">> \o CLASSNAME_HIGHLIGHT \o <<" fill:yellow,color:black\n">>

\* _indent of addGraph: indent, and indent once more per level.
IndentOf(indentNumber) == FlatSeq([i \in 1..(indentNumber + 1) |-> indent])

SubgraphLine(tree, indentNumber, parent) ==
    IndentOf(indentNumber) \o <<"subgraph ">> \o fileNameToMermaidId(tree.currentDir)
        \o <<"[\"">>
        \o fileNameToMermaidName(
               IF parent.defined /\ parent.dir # <<>>
               THEN ReplaceFirst(tree.currentDir, parent.dir, <<>>)
               ELSE tree.currentDir)
        \o <<"\"]">>

NodeLine(node, indentNumber) ==
    IndentOf(indentNumber) \o indent \o fileNameToMermaidId(node.path)
        \o <<"[\"">> \o fileNameToMermaidName(node.name) \o <<"\"]">>
        \o (IF node.highlight THEN <<":::">> \o CLASSNAME_HIGHLIGHT
            ELSE IF node.isDirectory THEN <<":::">> \o CLASSNAME_DIR
            ELSE <<>>)

\* The closing line written at the first level whatever the depth.
EndLine_FirstLevel(indentNumber) == indent \o <<"end">>

EndLine(indentNumber) == IndentOf(indentNumber) \o <<"end">>

\* The arrow line with its endpoints exchanged.
ArrowLine_Reversed(relation) ==
    <<"    ">> \o fileNameToMermaidId(relation.to.path) \o <<"-->">>
        \o fileNameToMermaidId(relation.from.path)

ArrowLine(relation) ==
    <<"    ">> \o fileNameToMermaidId(relation.from.path) \o <<"-->">>
        \o fileNameToMermaidId(relation.to.path)

ClickLine(node, rootDir) ==
    indent \o <<"click ">> \o fileNameToMermaidId(node.path)
        \o <<" href \"vscode://file/">> \o PathJoin(<<rootDir, node.path>>)
        \o <<"\" _blank">>

NewLine == <<"\n">>

\* The frame of a forEach over sibling trees, in addGraph or addLink: tree i
\* is being handled, k is the position in its nodes.
Frame(trees, indentNumber, parent) ==
    [trees |-> trees, i |-> 1, indentNumber |-> indentNumber, parent |-> parent,
     phase |-> "open", k |-> 1]

Top == stack[Len(stack)]

Pop == SubSeq(stack, 1, Len(stack) - 1)

SetTop(f) == [stack EXCEPT ![Len(stack)] = f]

\* The direction declaration.
WriteDirection ==
    /\ pc = "direction"
    /\ written' = written \o DirectionWrites(options)
    /\ pc' = "abstraction"
    /\ UNCHANGED <<graph, include, exclude, filtered, fileName, mermaidId, options,
                   dirAndNodesTree, stack, relIdx>>

\* if (options.abstraction) write(classDef dir)
WriteClassDefDir ==
    /\ pc = "abstraction"
    /\ written' = IF options.abstraction THEN Append(written, ClassDefDirLine) ELSE written
    /\ pc' = "highlight"
    /\ UNCHANGED <<graph, include, exclude, filtered, fileName, mermaidId, options,
                   dirAndNodesTree, stack, relIdx>>

\* if (options.highlight) write(classDef highlight)
WriteClassDefHighlight ==
    /\ pc = "highlight"
    /\ written' = IF options.highlight THEN Append(written, ClassDefHighlightLine)
                  ELSE written
    /\ pc' = "tree"
    /\ UNCHANGED <<graph, include, exclude, filtered, fileName, mermaidId, options,
                   dirAndNodesTree, stack, relIdx>>

\* const dirAndNodesTree = createDirAndNodesTree(graph), and the call of
\* writeFileNodesWithSubgraph.
BuildTree ==
    /\ pc = "tree"
    /\ dirAndNodesTree' = createDirAndNodesTree(graph)
    /\ stack' = <<Frame(dirAndNodesTree', 0, NoDir)>>
    /\ pc' = "subgraphs"
    /\ UNCHANGED <<graph, include, exclude, filtered, fileName, mermaidId, options,
                   relIdx, written>>

\* addGraph: the opening line of a tree.
AddGraphOpen ==
    /\ pc = "subgraphs"
    /\ Top.phase = "open"
    /\ Top.i <= Len(Top.trees)
    /\ written' = written
           \o <<SubgraphLine(Top.trees[Top.i], Top.indentNumber, Top.parent), NewLine>>
    /\ stack' = SetTop([Top EXCEPT !.phase = "nodes", !.k = 1])
    /\ UNCHANGED <<pc, graph, include, exclude, filtered, fileName, mermaidId, options,
                   dirAndNodesTree, relIdx>>

\* addGraph: the line of one node of the tree.
AddGraphNode ==
    /\ pc = "subgraphs"
    /\ Top.phase = "nodes"
    /\ Top.k <= Len(Top.trees[Top.i].nodes)
    /\ written' = written
           \o <<NodeLine(Top.trees[Top.i].nodes[Top.k], Top.indentNumber), NewLine>>
    /\ stack' = SetTop([Top EXCEPT !.k = @ + 1])
    /\ UNCHANGED <<pc, graph, include, exclude, filtered, fileName, mermaidId, options,
                   dirAndNodesTree, relIdx>>

\* addGraph: tree.children.forEach(child => addGraph(write, child,
\* indentNumber + 1, tree.currentDir)).
AddGraphChildren ==
    /\ pc = "subgraphs"
    /\ Top.phase = "nodes"
    /\ Top.k > Len(Top.trees[Top.i].nodes)
    /\ stack' = Append(SetTop([Top EXCEPT !.phase = "end"]),
                       Frame(Top.trees[Top.i].children, Top.indentNumber + 1,
                             Dir(Top.trees[Top.i].currentDir)))
    /\ UNCHANGED <<pc, graph, include, exclude, filtered, fileName, mermaidId, options,
                   dirAndNodesTree, relIdx, written>>

\* addGraph: the closing line of a tree, and the forEach moves on.
AddGraphEnd ==
    /\ pc = "subgraphs"
    /\ Top.phase = "end"
    /\ written' = written \o <<EndLine(Top.indentNumber), NewLine>>
    /\ stack' = SetTop([Top EXCEPT !.phase = "open", !.i = @ + 1])
    /\ UNCHANGED <<pc, graph, include, exclude, filtered, fileName, mermaidId, options,
                   dirAndNodesTree, relIdx>>

\* The forEach over sibling trees is over: back in the caller, or on to
\* writeRelations when the forest is done.
AddGraphReturn ==
    /\ pc = "subgraphs"
    /\ Top.phase = "open"
    /\ Top.i > Len(Top.trees)
    /\ stack' = Pop
    /\ pc' = IF Len(stack) = 1 THEN "relations" ELSE "subgraphs"
    /\ relIdx' = IF Len(stack) = 1 THEN 1 ELSE relIdx
    /\ UNCHANGED <<graph, include, exclude, filtered, fileName, mermaidId, options,
                   dirAndNodesTree, written>>

\* writeRelations: the arrow line of one relation.
WriteRelation ==
    /\ pc = "relations"
    /\ relIdx <= Len(graph.relations)
    /\ written' = written \o <<ArrowLine(graph.relations[relIdx]), NewLine>>
    /\ relIdx' = relIdx + 1
    /\ UNCHANGED <<pc, graph, include, exclude, filtered, fileName, mermaidId, options,
                   dirAndNodesTree, stack>>

\* writeRelations is over: writeFileLink when options.mermaidLink, else done.
RelationsWritten ==
    /\ pc = "relations"
    /\ relIdx > Len(graph.relations)
    /\ IF options.mermaidLink
       THEN pc' = "links" /\ stack' = <<Frame(dirAndNodesTree, 0, NoDir)>>
       ELSE pc' = "done" /\ stack' = stack
    /\ UNCHANGED <<graph, include, exclude, filtered, fileName, mermaidId, options,
                   dirAndNodesTree, relIdx, written>>

\* addLink: the click line of one node of the tree.
AddLinkNode ==
    /\ pc = "links"
    /\ Top.i <= Len(Top.trees)
    /\ Top.k <= Len(Top.trees[Top.i].nodes)
    /\ written' = written
           \o <<ClickLine(Top.trees[Top.i].nodes[Top.k], options.rootDir), NewLine>>
    /\ stack' = SetTop([Top EXCEPT !.k = @ + 1])
    /\ UNCHANGED <<pc, graph, include, exclude, filtered, fileName, mermaidId, options,
                   dirAndNodesTree, relIdx>>

\* addLink: tree.children.forEach(child => addLink(write, child, rootDir)).
AddLinkChildren ==
    /\ pc = "links"
    /\ Top.i <= Len(Top.trees)
    /\ Top.k > Len(Top.trees[Top.i].nodes)
    /\ stack' = Append(SetTop([Top EXCEPT !.i = @ + 1, !.k = 1]),
                       Frame(Top.trees[Top.i].children, 0, NoDir))
    /\ UNCHANGED <<pc, graph, include, exclude, filtered, fileName, mermaidId, options,
                   dirAndNodesTree, relIdx, written>>

\* The forEach of addLink or writeFileLink is over.
AddLinkReturn ==
    /\ pc = "links"
    /\ Top.i > Len(Top.trees)
    /\ stack' = Pop
    /\ pc' = IF Len(stack) = 1 THEN "done" ELSE "links"
    /\ UNCHANGED <<graph, include, exclude, filtered, fileName, mermaidId, options,
                   dirAndNodesTree, relIdx, written>>

-----------------------------------------------------------------------------
(* Inputs of mermaidify *)

MaxRenderNodes == 3

MaxRenderRelations == 2

\* The nodes of the rendered graphs, in the order they keep in a graph.
RenderNodes ==
    <<[path |-> <<"x">>, name |-> <<"x">>, highlight |-> FALSE, isDirectory |-> FALSE],
      [path |-> <<"a", "/", "x">>, name |-> <<"x">>, highlight |-> TRUE, isDirectory |-> TRUE],
      [path |-> <<"a", "/", "b", "/", "y">>, name |-> <<"\"", "y", "\"">>, highlight |-> FALSE, isDirectory |-> TRUE],
      [path |-> <<"a", "/", "b", "/", "c", "/", "z">>, name |-> <<"z">>, highlight |-> FALSE, isDirectory |-> FALSE],
      [path |-> <<"a", "/", "d", "/", "w">>, name |-> <<"w">>, highlight |-> FALSE, isDirectory |-> FALSE]>>

RenderRelations ==
    {MkRelation(RenderNodes[2], RenderNodes[3]), MkRelation(RenderNodes[3], RenderNodes[1])}

InitRender ==
    /\ pc = "direction"
    /\ \E chosen \in {c \in SUBSET (1..Len(RenderNodes)) : Cardinality(c) <= MaxRenderNodes} :
          \E relations \in SeqsUpTo(RenderRelations, MaxRenderRelations) :
              graph = [nodes |-> SelectSeq(RenderNodes,
                                     LAMBDA node : \E i \in chosen : RenderNodes[i] = node),
                       relations |-> relations]
    /\ options \in [LR : BOOLEAN, TB : BOOLEAN, abstraction : BOOLEAN,
                    highlight : BOOLEAN, mermaidLink : BOOLEAN, rootDir : {<<"/", "r">>}]
    /\ include = Absent
    /\ exclude = Absent
    /\ filtered = [nodes |-> <<>>, relations |-> <<>>]
    /\ fileName = <<>>
    /\ mermaidId = <<>>
    /\ dirAndNodesTree = <<>>
    /\ stack = <<>>
    /\ relIdx = 0
    /\ written = <<>>

NextRender ==
    \/ WriteDirection
    \/ WriteClassDefDir
    \/ WriteClassDefHighlight
    \/ BuildTree
    \/ AddGraphOpen
    \/ AddGraphNode
    \/ AddGraphChildren
    \/ AddGraphEnd
    \/ AddGraphReturn
    \/ WriteRelation
    \/ RelationsWritten
    \/ AddLinkNode
    \/ AddLinkChildren
    \/ AddLinkReturn

SpecRender == InitRender /\ [][NextRender]_vars


-----------------------------------------------------------------------------
(* Properties of mermaidify *)

RECURSIVE IndentUnits(_)
\* The number of indent units a written text starts with.
IndentUnits(text) ==
    IF text # <<>> /\ <<Head(text)>> = indent THEN 1 + IndentUnits(Tail(text)) ELSE 0

\* A written text after its indent units.
Unindented(text) == SubSeq(text, IndentUnits(text) + 1, Len(text))

IsDirectionLine(text) ==
    text \in {<<"flowchart LR\n">>, <<"flowchart TB\n">>, <<"flowchart\n">>}

IsSubgraphLine(text) == Unindented(text) # <<>> /\ Head(Unindented(text)) = "subgraph "

IsEndLine(text) == Unindented(text) = <<"end">>

IsArrowLine(text) == "-->" \in Range(text)

IsClickLine(text) == Unindented(text) # <<>> /\ Head(Unindented(text)) = "click "

\* The positions of the written texts of a kind.
Positions(IsKind(_)) == {i \in 1..Len(written) : IsKind(written[i])}

\* C7: the writes hold exactly one direction declaration line, the first
\* write, whatever the flags; with both style options on, the directory
\* class-definition line comes before the highlight one, and both before every
\* group line.
C7_Header ==
    /\ pc # "direction" =>
          /\ Positions(IsDirectionLine) = {1}
          /\ written[1] = IF options.LR THEN <<"flowchart LR\n">>
                          ELSE IF options.TB THEN <<"flowchart TB\n">>
                          ELSE <<"flowchart\n">>
    /\ pc = "direction" => written = <<>>
    /\ (pc \notin {"direction", "abstraction", "highlight"}
        /\ options.abstraction /\ options.highlight) =>
          \E d, h \in 1..Len(written) :
              /\ written[d] = ClassDefDirLine
              /\ written[h] = ClassDefHighlightLine
              /\ d < h
              /\ \A g \in Positions(IsSubgraphLine) : h < g
              /\ \A e \in 1..Len(written) :
                    /\ written[e] = ClassDefDirLine => e = d
                    /\ written[e] = ClassDefHighlightLine => e = h

\* LR and TB both set, both style options on, and a group line written.
C7_Witness ==
    /\ pc = "done"
    /\ options.LR /\ options.TB /\ options.abstraction /\ options.highlight
    /\ written[1] = <<"flowchart LR\n">>
    /\ written[2] = ClassDefDirLine
    /\ written[3] = ClassDefHighlightLine
    /\ Cardinality(Positions(IsSubgraphLine)) >= 2

\* The arrow lines written so far, in order.
ArrowLines == SelectSeq(written, IsArrowLine)

\* C8: one arrow line per element of graph.relations, duplicates included, the
\* i-th being <id(from.path)>--><id(to.path)> of the i-th relation; every arrow
\* line comes after the last closing line of the tree and before any link line.
C8_RelationRendering ==
    /\ pc \in {"links", "done"} =>
          /\ Len(ArrowLines) = Len(graph.relations)
          /\ \A i \in 1..Len(graph.relations) :
                ArrowLines[i] = <<"    ">> \o fileNameToMermaidId(graph.relations[i].from.path)
                                    \o <<"-->">>
                                    \o fileNameToMermaidId(graph.relations[i].to.path)
    /\ \A a \in Positions(IsArrowLine) :
          /\ \A e \in Positions(IsEndLine) : e < a
          /\ \A c \in Positions(IsClickLine) : a < c
    /\ pc \in {"direction", "abstraction", "highlight", "tree", "subgraphs"} =>
          Positions(IsArrowLine) = {}

\* The same relation rendered twice, after a tree and before the links.
C8_Witness ==
    /\ pc = "done"
    /\ Len(graph.relations) = 2
    /\ graph.relations[1] = graph.relations[2]
    /\ Len(ArrowLines) = 2
    /\ ArrowLines[1] = ArrowLines[2]
    /\ Positions(IsEndLine) # {}
    /\ Positions(IsClickLine) # {}

\* The number of written texts of a kind among the first n.
CountUpTo(IsKind(_), n) == Cardinality({i \in 1..n : IsKind(written[i])})

\* The closing line that matches the opening line at position o: the first
\* later position at which as many groups are closed as opened since o.
MatchingEnd(o) ==
    LET closed == {e \in (o + 1)..Len(written) :
                      /\ IsEndLine(written[e])
                      /\ CountUpTo(IsSubgraphLine, e) - CountUpTo(IsSubgraphLine, o - 1)
                            = CountUpTo(IsEndLine, e) - CountUpTo(IsEndLine, o - 1)}
    IN  IF closed = {} THEN 0 ELSE CHOOSE e \in closed : \A f \in closed : e <= f

\* The number of tree nodes of a tree, itself included.
TreeSize(tree) == 1 + Len(TreeNodesOf(tree.children, 0))

\* The position of the n-th opening line.
OpeningPosition(n) ==
    CHOOSE o \in Positions(IsSubgraphLine) : CountUpTo(IsSubgraphLine, o) = n

\* C9: the tree section is a properly nested pre-order walk.  In every prefix
\* of the writes the closing lines are no more than the opening lines (a step
\* appends two writes at most, so the prefixes are the written sequences of
\* the states and those less their last write).  When the section has just
\* been written, the n-th opening line is that of the n-th tree node
\* in pre-order, indented depth + 1 units; its closing line has the same
\* indent and encloses exactly the lines of its descendants; the lines of its
\* own nodes follow the opening line, in nodes order, one unit deeper, and come
\* before the opening line of its first child.
C9_NestedPreOrder ==
    /\ \A n \in {Len(written) - 1, Len(written)} \cap Nat :
          CountUpTo(IsEndLine, n) <= CountUpTo(IsSubgraphLine, n)
    /\ (pc = "relations" /\ relIdx = 1) =>
          LET all == TreeNodesOf(dirAndNodesTree, 0)
          IN  /\ Cardinality(Positions(IsSubgraphLine)) = Len(all)
              /\ Cardinality(Positions(IsEndLine)) = Len(all)
              /\ \A n \in 1..Len(all) :
                    LET o == OpeningPosition(n)
                        e == MatchingEnd(o)
                        t == all[n].tree
                        id == fileNameToMermaidId(t.currentDir)
                    IN  /\ IndentUnits(written[o]) = all[n].depth + 1
                        /\ SubSeq(Unindented(written[o]), 1, Len(id) + 2)
                              = <<"subgraph ">> \o id \o <<"[\"">>
                        /\ e > o
                        /\ IndentUnits(written[e]) = IndentUnits(written[o])
                        /\ Cardinality({p \in Positions(IsSubgraphLine) : o < p /\ p < e})
                              = TreeSize(t) - 1
                        /\ \A k \in 1..Len(t.nodes) :
                              LET line == written[o + 2 * k]
                                  nid == fileNameToMermaidId(t.nodes[k].path)
                              IN  /\ IndentUnits(line) = all[n].depth + 2
                                  /\ SubSeq(Unindented(line), 1, Len(nid) + 1)
                                        = nid \o <<"[\"">>
                        /\ LET next == written[o + 2 * Len(t.nodes) + 2]
                           IN  IF t.children = <<>> THEN o + 2 * Len(t.nodes) + 2 = e
                               ELSE /\ IsSubgraphLine(next)
                                    /\ IndentUnits(next) = all[n].depth + 2

\* A root with a node of its own, a child and a grandchild, all written.
C9_Witness ==
    /\ pc = "relations" /\ relIdx = 1
    /\ PathsOf(graph.nodes) = <<<<"a", "/", "x">>, <<"a", "/", "b", "/", "y">>, <<"a", "/", "b", "/", "c", "/", "z">>>>
    /\ Cardinality(Positions(IsSubgraphLine)) = 3
    /\ Cardinality(Positions(IsEndLine)) = 3
    /\ IndentUnits(written[OpeningPosition(3)]) = 3
    /\ MatchingEnd(OpeningPosition(1)) = Len(written) - 1

====
